---- MODULE Spec2Model ----
(***************************************************************************)
(* Model of tristan-img: Collection::from_nexus, Collection::as_tree and   *)
(* read_hdf5_data (src/src/collection.rs) and the `debug datasets` arm of  *)
(* main (src/src/main.rs).                                                 *)
(*                                                                         *)
(* Strings are sequences of one-character strings, so that formatting,     *)
(* file_stem and path joining are computed character by character.         *)
(* Option values are sequences of length 0 (None) or 1 (Some).             *)
(***************************************************************************)
EXTENDS Integers, Sequences, FiniteSets, TLC

\* ------------------------------------------------------------------ bounds
MaxModules == 3
MaxCount == 2
MaxDataFiles == 2
MaxKeys == 2
MaxNumber == 120
MaxWidth == 4

\* ------------------------------------------------------- program constants
\* default_value_t of data_file_padding
DefaultPadding == 6

None == <<>>
Some(x) == <<x>>

\* ----------------------------------------------------------- formatting
DigitChars == <<"0", "1", "2", "3", "4", "5", "6", "7", "8", "9">>

\* Display of an unsigned integer: its decimal digits, most significant first
RECURSIVE Digits(_)
Digits(n) ==
    IF n < 10 THEN <<DigitChars[n + 1]>>
    ELSE Append(Digits(n \div 10), DigitChars[(n % 10) + 1])

RECURSIVE Fill(_, _)
Fill(c, k) == IF k <= 0 THEN <<>> ELSE <<c>> \o Fill(c, k - 1)

\* a plausible slip: the width is applied as a precision and cuts the digits
FormatNumberTruncating(n, width) ==
    LET d == Digits(n)
    IN  IF Len(d) >= width THEN SubSeq(d, Len(d) - width + 1, Len(d))
        ELSE Fill("0", width - Len(d)) \o d

\* {file_number:0>datafile_zero_padding$}: fill '0', right-aligned, minimum
\* width; the fill is written only when the digits are shorter than the width
FormatNumber(n, width) ==
    LET d == Digits(n)
    IN  IF Len(d) >= width THEN d ELSE Fill("0", width - Len(d)) \o d

\* format!("{datafile_prefix}_{file_number:0>datafile_zero_padding$}.h5")
DataFileName(prefix, n, width) ==
    prefix \o <<"_">> \o FormatNumber(n, width) \o <<".", "h", "5">>

\* ----------------------------------------------------------------- paths
\* A path is [root, comps]: whether it starts at the root directory, and its
\* components in order.  The components "." and ".." are the CurDir and
\* ParentDir components of std::path.
CurDir == <<".">>
ParentDir == <<".", ".">>

RECURSIVE LastDot(_)
LastDot(name) ==
    IF name = <<>> THEN 0
    ELSE IF name[Len(name)] = "." THEN Len(name)
    ELSE LastDot(SubSeq(name, 1, Len(name) - 1))

\* Path::file_name: the last component when it is a normal one
file_name(p) ==
    IF p.comps = <<>> THEN None
    ELSE LET last == p.comps[Len(p.comps)]
         IN  IF last = ParentDir \/ last = CurDir THEN None ELSE Some(last)

\* Path::file_stem: the file name up to its last '.', or the whole name when
\* it holds no '.' or only a leading one
file_stem(p) ==
    IF file_name(p) = None THEN None
    ELSE LET name == file_name(p)[1]
             i == LastDot(name)
         IN  IF i <= 1 THEN Some(name) ELSE Some(SubSeq(name, 1, i - 1))

\* a plausible change: a path of one component is given no parent
parentOfNested(p) ==
    IF Len(p.comps) <= 1 THEN None
    ELSE Some([root |-> p.root, comps |-> SubSeq(p.comps, 1, Len(p.comps) - 1)])

\* Path::parent: the path without its last component; None when the path is
\* empty or ends in the root
parent(p) ==
    IF p.comps = <<>> THEN None
    ELSE Some([root |-> p.root, comps |-> SubSeq(p.comps, 1, Len(p.comps) - 1)])

\* PathBuf::push of a relative name
push(p, name) == [root |-> p.root, comps |-> Append(p.comps, name)]

RECURSIVE JoinComps(_)
JoinComps(cs) ==
    IF cs = <<>> THEN <<>>
    ELSE IF Len(cs) = 1 THEN cs[1]
    ELSE cs[1] \o <<"/">> \o JoinComps(Tail(cs))

\* the path as the string handed to the HDF5 library
PathString(p) == (IF p.root THEN <<"/">> ELSE <<>>) \o JoinComps(p.comps)

\* ------------------------------------------------------------ error values
\* Error::Hdf5, Error::NoFileStem, Error::NoParentDirecory, Error::DatasetNotFound
ErrHdf5 == <<"Hdf5">>
ErrNoFileStem == <<"NoFileStem">>
ErrNoParentDirecory == <<"NoParentDirecory">>
ErrDatasetNotFound(key) == <<"DatasetNotFound", key>>

\* Result<T, Error>
Ok(v) == [err |-> None, val |-> Some(v)]
Err(e) == [err |-> Some(e), val |-> None]

\* ------------------------------------------------------------------ state
VARIABLES
    \* command line (DebugDatasetsCommand)
    nexus_path, data_file_padding, data_files, datasets,
    \* the file system: the metadata file at nexus_path, and the numbers of
    \* the data files that are absent from its directory (what an ad-hoc data
    \* file holds is recorded in rd_calls when it is read)
    fsMeta, fsMissing,
    \* every HDF5 handle currently open, ids handed out so far, and the
    \* data-file opens attempted so far
    openHandles, nextId, opens,
    \* control position
    pc,
    \* locals of Collection::from_nexus and what it returned
    file, meta, module_file_counts, datafile_prefix, directory,
    modules, file_number_offset, module_pos, cur_data_files, file_idx,
    fn_result,
    \* locals of main
    collection, file_pos, reports, tree,
    \* locals of read_hdf5_data and what it returned
    rd_file, key_pos, data, rd_result, rd_calls,
    \* inputs and output of the formatting check
    fmt_n, fmt_width, fmt_out

argVars == <<nexus_path, data_file_padding, data_files, datasets>>
fsVars == <<fsMeta, fsMissing>>
fnLocals == <<file, meta, module_file_counts, datafile_prefix, directory,
              modules, file_number_offset, module_pos, cur_data_files, file_idx>>
mainVars == <<collection, file_pos, reports, tree>>
rdVars == <<rd_file, key_pos, data, rd_result, rd_calls>>
fmtVars == <<fmt_n, fmt_width, fmt_out>>
vars == <<argVars, fsVars, openHandles, nextId, opens, pc, fnLocals, fn_result,
          mainVars, rdVars, fmtVars>>

\* ---------------------------------------------------------------- handles
\* hdf5::File / hdf5::Group: an open library handle
Handle(id, kind, name) == [id |-> id, kind |-> kind, name |-> name]

Range(s) == {s[i] : i \in 1..Len(s)}

RECURSIVE Flatten(_)
Flatten(ss) == IF ss = <<>> THEN <<>> ELSE ss[1] \o Flatten(Tail(ss))

\* the handles a Vec<Module> owns
ModuleHandles(ms) == Range(Flatten([i \in 1..Len(ms) |-> ms[i].data_files]))

\* a plausible slip: the data files opened so far outlive an early return
FnLocalHandlesLeaky(f, m, ms, dfs) == Range(f) \cup Range(m)

\* the handles owned by the locals of from_nexus: `file`, `meta`, `modules`
\* and the `data_files` of the module being filled
FnLocalHandles(f, m, ms, dfs) ==
    Range(f) \cup Range(m) \cup ModuleHandles(ms) \cup Range(dfs)

\* Drop: a handle that goes out of scope is closed
Release(open, hs) == open \ hs

\* ------------------------------------------------------- from_nexus
GroupName == <<"/", "e", "n", "t", "r", "y", "/", "d", "a", "t", "a", "/",
               "m", "e", "t", "a", "_", "f", "i", "l", "e">>

\* a plausible slip: a failure ends the resolution with what was opened so far
FnFailPartial(e) ==
    /\ fn_result' = Some(Ok([modules |-> Append(modules, [data_files |-> cur_data_files])]))
    /\ openHandles' = Release(openHandles, Range(file) \cup Range(meta))
    /\ file' = None
    /\ meta' = None
    /\ modules' = <<>>
    /\ cur_data_files' = <<>>
    /\ pc' = "fn_returned"

\* an early return through `?` / ok_or: every local is dropped
FnFail(e) ==
    /\ fn_result' = Some(Err(e))
    /\ openHandles' = Release(openHandles,
                              FnLocalHandles(file, meta, modules, cur_data_files))
    /\ file' = None
    /\ meta' = None
    /\ modules' = <<>>
    /\ cur_data_files' = <<>>
    /\ pc' = "fn_returned"

\* line 37: File::open(&path)?
FN_OpenFile ==
    /\ pc = "fn_open"
    /\ IF fsMeta.state = "unopenable"
       THEN /\ FnFail(ErrHdf5)
            /\ UNCHANGED nextId
       ELSE /\ file' = Some(Handle(nextId, "file", PathString(nexus_path)))
            /\ openHandles' = openHandles \cup {Handle(nextId, "file", PathString(nexus_path))}
            /\ nextId' = nextId + 1
            /\ pc' = "fn_group"
            /\ UNCHANGED <<meta, modules, cur_data_files, fn_result>>
    /\ UNCHANGED <<argVars, fsVars, opens, module_file_counts, datafile_prefix,
                   directory, file_number_offset, module_pos, file_idx,
                   mainVars, rdVars, fmtVars>>

\* line 38: file.group("/entry/data/meta_file")?
FN_Group ==
    /\ pc = "fn_group"
    /\ IF fsMeta.state = "nogroup"
       THEN /\ FnFail(ErrHdf5)
            /\ UNCHANGED nextId
       ELSE /\ meta' = Some(Handle(nextId, "group", GroupName))
            /\ openHandles' = openHandles \cup {Handle(nextId, "group", GroupName)}
            /\ nextId' = nextId + 1
            /\ pc' = "fn_counts"
            /\ UNCHANGED <<file, modules, cur_data_files, fn_result>>
    /\ UNCHANGED <<argVars, fsVars, opens, module_file_counts, datafile_prefix,
                   directory, file_number_offset, module_pos, file_idx,
                   mainVars, rdVars, fmtVars>>

\* line 40: meta.dataset("fp_per_module")?.read_1d::<u32>()?
\* (the dataset handle is a temporary, closed at the end of the statement)
FN_ReadCounts ==
    /\ pc = "fn_counts"
    /\ IF fsMeta.state \in {"nodataset", "unreadable"}
       THEN /\ FnFail(ErrHdf5)
            /\ UNCHANGED module_file_counts
       ELSE /\ module_file_counts' = fsMeta.counts
            /\ pc' = "fn_stem"
            /\ UNCHANGED <<openHandles, file, meta, modules, cur_data_files, fn_result>>
    /\ UNCHANGED <<argVars, fsVars, opens, nextId, datafile_prefix,
                   directory, file_number_offset, module_pos, file_idx,
                   mainVars, rdVars, fmtVars>>

\* lines 41-45: path.file_stem().ok_or(NoFileStem)?.to_str().ok_or(NoFileStem)?
FN_FileStem ==
    /\ pc = "fn_stem"
    /\ IF file_stem(nexus_path) = None
       THEN /\ FnFail(ErrNoFileStem)
            /\ UNCHANGED datafile_prefix
       ELSE /\ datafile_prefix' = file_stem(nexus_path)[1]
            /\ pc' = "fn_parent"
            /\ UNCHANGED <<openHandles, file, meta, modules, cur_data_files, fn_result>>
    /\ UNCHANGED <<argVars, fsVars, opens, nextId, module_file_counts,
                   directory, file_number_offset, module_pos, file_idx,
                   mainVars, rdVars, fmtVars>>

\* lines 46-49: path.parent().ok_or(NoParentDirecory)?.to_owned(), then the
\* empty `modules` and the zero `file_number_offset`
FN_Parent ==
    /\ pc = "fn_parent"
    /\ IF parent(nexus_path) = None
       THEN /\ FnFail(ErrNoParentDirecory)
            /\ UNCHANGED <<directory, file_number_offset, module_pos>>
       ELSE /\ directory' = parent(nexus_path)[1]
            /\ modules' = <<>>
            /\ file_number_offset' = 0
            /\ module_pos' = 1
            /\ pc' = "fn_modules"
            /\ UNCHANGED <<openHandles, file, meta, cur_data_files, fn_result>>
    /\ UNCHANGED <<argVars, fsVars, opens, nextId, module_file_counts,
                   datafile_prefix, file_idx, mainVars, rdVars, fmtVars>>

\* lines 50-52: the next module_file_count, with an empty data_files and the
\* range 1..=module_file_count
FN_NextModule ==
    /\ pc = "fn_modules"
    /\ module_pos <= Len(module_file_counts)
    /\ cur_data_files' = <<>>
    /\ file_idx' = 1
    /\ pc' = "fn_files"
    /\ UNCHANGED <<argVars, fsVars, openHandles, nextId, opens, file, meta,
                   module_file_counts, datafile_prefix, directory, modules,
                   file_number_offset, module_pos, fn_result,
                   mainVars, rdVars, fmtVars>>

\* line 53: file_number_offset + file_idx (u32; the sum stays far below 2^32
\* for any number of files that can be opened)
FileNumber(offset, idx) == offset + idx

\* File::open(&data_file_path) fails when the file is absent
OpenFails(missing, n) == n \in missing

\* lines 53-58: one pass of the inner loop
FN_OpenDataFile ==
    /\ pc = "fn_files"
    /\ file_idx <= module_file_counts[module_pos]
    /\ LET file_number == FileNumber(file_number_offset, file_idx)
           data_file_name == DataFileName(datafile_prefix, file_number, data_file_padding)
           data_file_path == push(directory, data_file_name)
           h == Handle(nextId, "file", PathString(data_file_path))
       IN  /\ opens' = Append(opens, [number |-> file_number,
                                      path |-> PathString(data_file_path),
                                      ok |-> ~ OpenFails(fsMissing, file_number)])
           /\ IF OpenFails(fsMissing, file_number)
              THEN /\ FnFail(ErrHdf5)
                   /\ UNCHANGED <<nextId, file_idx>>
              ELSE /\ cur_data_files' = Append(cur_data_files, h)
                   /\ openHandles' = openHandles \cup {h}
                   /\ nextId' = nextId + 1
                   /\ file_idx' = file_idx + 1
                   /\ UNCHANGED <<file, meta, modules, fn_result, pc>>
    /\ UNCHANGED <<argVars, fsVars, module_file_counts, datafile_prefix, directory,
                   file_number_offset, module_pos, mainVars, rdVars, fmtVars>>

\* a plausible slip: the offset is set to the count instead of advanced by it
AdvanceOffsetReset(offset, count) == count

\* line 61: file_number_offset += module_file_count
AdvanceOffset(offset, count) == offset + count

\* a plausible slip: a module without data files is left out
FN_PushModuleSkipEmpty ==
    /\ pc = "fn_files"
    /\ file_idx > module_file_counts[module_pos]
    /\ modules' = IF cur_data_files = <<>> THEN modules
                  ELSE Append(modules, [data_files |-> cur_data_files])
    /\ cur_data_files' = <<>>
    /\ file_number_offset' = AdvanceOffset(file_number_offset, module_file_counts[module_pos])
    /\ module_pos' = module_pos + 1
    /\ pc' = "fn_modules"
    /\ UNCHANGED <<argVars, fsVars, openHandles, nextId, opens, file, meta,
                   module_file_counts, datafile_prefix, directory, file_idx,
                   fn_result, mainVars, rdVars, fmtVars>>

\* lines 60-61: the module is complete
FN_PushModule ==
    /\ pc = "fn_files"
    /\ file_idx > module_file_counts[module_pos]
    /\ modules' = Append(modules, [data_files |-> cur_data_files])
    /\ cur_data_files' = <<>>
    /\ file_number_offset' = AdvanceOffset(file_number_offset, module_file_counts[module_pos])
    /\ module_pos' = module_pos + 1
    /\ pc' = "fn_modules"
    /\ UNCHANGED <<argVars, fsVars, openHandles, nextId, opens, file, meta,
                   module_file_counts, datafile_prefix, directory, file_idx,
                   fn_result, mainVars, rdVars, fmtVars>>

\* line 64: Ok(Self { modules }); `file` and `meta` are dropped, the data
\* files move into the returned Collection
FN_ReturnOk ==
    /\ pc = "fn_modules"
    /\ module_pos > Len(module_file_counts)
    /\ fn_result' = Some(Ok([modules |-> modules]))
    /\ openHandles' = Release(openHandles, Range(file) \cup Range(meta))
    /\ file' = None
    /\ meta' = None
    /\ modules' = <<>>
    /\ pc' = "fn_returned"
    /\ UNCHANGED <<argVars, fsVars, nextId, opens, module_file_counts,
                   datafile_prefix, directory, file_number_offset, module_pos,
                   cur_data_files, file_idx, mainVars, rdVars, fmtVars>>

\* ------------------------------------------------------------- as_tree
CollectionLabel == <<"c", "o", "l", "l", "e", "c", "t", "i", "o", "n">>

\* format!("module_{module_idx}")
ModuleLabel(module_idx) == <<"m", "o", "d", "u", "l", "e", "_">> \o Digits(module_idx)

RECURSIVE LastSlash(_)
LastSlash(name) ==
    IF name = <<>> THEN 0
    ELSE IF name[Len(name)] = "/" THEN Len(name)
    ELSE LastSlash(SubSeq(name, 1, Len(name) - 1))

\* the last component of a path string
BaseName(name) == SubSeq(name, LastSlash(name) + 1, Len(name))

\* a plausible change: the leaf shows the last component only
FileLabelBaseName(h) == BaseName(h.name)

\* line 73: File::filename() is the name the file was opened under (the
\* whole string passed to File::open)
FileLabel(h) == h.name

\* a plausible slip: the modules are numbered from one
ModuleNodeOneBased(k, m) ==
    [label |-> ModuleLabel(k),
     children |-> [j \in 1..Len(m.data_files) |-> FileLabel(m.data_files[j])]]

\* lines 70-75: the child of the k-th module (k counted from one here, the
\* index of enumerate() being k - 1), with one empty child per data file
ModuleNode(k, m) ==
    [label |-> ModuleLabel(k - 1),
     children |-> [j \in 1..Len(m.data_files) |-> FileLabel(m.data_files[j])]]

\* lines 68-78
as_tree(c) ==
    [label |-> CollectionLabel,
     children |-> [k \in 1..Len(c.modules) |-> ModuleNode(k, c.modules[k])]]

\* ------------------------------------------------------ ad-hoc data files
Keys == {"a", "b"}

\* the datasets of an ad-hoc data file: each is readable as 1-d f64 ("ok"),
\* present but not readable that way ("bad"), or absent
DatasetStates == {"ok", "bad", "absent"}

\* the values stored under a key
Values(key) == IF key = "a" THEN <<1, 2>> ELSE <<3>>

\* the ad-hoc data files: one that cannot be opened, and one per assignment
\* of a state to each key
DataFileKinds ==
    {[openable |-> FALSE, sets |-> [k \in Keys |-> "absent"]]}
    \cup {[openable |-> TRUE, sets |-> f] : f \in [Keys -> DatasetStates]}

\* ------------------------------------------------------- read_hdf5_data
\* an early return from read_hdf5_data: `file` and `data` are dropped
RdFail(e) ==
    /\ rd_result' = Some(Err(e))
    /\ openHandles' = Release(openHandles, Range(rd_file))
    /\ rd_file' = None
    /\ data' = <<>>
    /\ pc' = "main_report"

\* the file the current call of read_hdf5_data was given, as it is on disk
CurrentFile == rd_calls[Len(rd_calls)].content

\* line 104: File::open(path)?, then the empty `data`
RD_OpenFile ==
    /\ pc = "rd_open"
    /\ IF ~ CurrentFile.openable
       THEN /\ RdFail(ErrHdf5)
            /\ UNCHANGED <<nextId, key_pos>>
       ELSE /\ rd_file' = Some(Handle(nextId, "file", data_files[file_pos]))
            /\ openHandles' = openHandles \cup {Handle(nextId, "file", data_files[file_pos])}
            /\ nextId' = nextId + 1
            /\ data' = <<>>
            /\ key_pos' = 1
            /\ pc' = "rd_keys"
            /\ UNCHANGED rd_result
    /\ UNCHANGED <<argVars, fsVars, opens, fnLocals, fn_result, mainVars,
                   rd_calls, fmtVars>>

\* a plausible slip: a missing dataset is skipped
DatasetStateLenient(f, key) == IF f.sets[key] = "absent" THEN "ok" ELSE f.sets[key]

\* what file.dataset(key) and dataset.read_1d() find for a key
DatasetState(f, key) == f.sets[key]

\* lines 107-114: one pass of the loop over the keys
RD_ReadKey ==
    /\ pc = "rd_keys"
    /\ key_pos <= Len(datasets)
    /\ LET key == datasets[key_pos]
           st == DatasetState(CurrentFile, key)
       IN  IF st = "absent"
           THEN /\ RdFail(ErrDatasetNotFound(key))
                /\ UNCHANGED key_pos
           ELSE IF st = "bad"
           THEN /\ RdFail(ErrHdf5)
                /\ UNCHANGED key_pos
           ELSE /\ data' = Append(data, Values(key))
                /\ key_pos' = key_pos + 1
                /\ UNCHANGED <<openHandles, rd_file, rd_result, pc>>
    /\ UNCHANGED <<argVars, fsVars, nextId, opens, fnLocals, fn_result, mainVars,
                   rd_calls, fmtVars>>

\* line 116: Ok(data); `file` is dropped
RD_ReturnOk ==
    /\ pc = "rd_keys"
    /\ key_pos > Len(datasets)
    /\ rd_result' = Some(Ok(data))
    /\ openHandles' = Release(openHandles, Range(rd_file))
    /\ rd_file' = None
    /\ data' = <<>>
    /\ pc' = "main_report"
    /\ UNCHANGED <<argVars, fsVars, nextId, opens, fnLocals, fn_result, mainVars,
                   key_pos, rd_calls, fmtVars>>

\* ------------------------------------------------------------------ main
\* lines 70-71: Collection::from_nexus(..).unwrap()
Main_Unwrap ==
    /\ pc = "fn_returned"
    /\ IF fn_result[1].err # None
       THEN /\ pc' = "panicked"
            /\ UNCHANGED <<collection, file_pos>>
       ELSE /\ collection' = fn_result[1].val
            /\ file_pos' = 1
            /\ pc' = "main_loop"
    /\ UNCHANGED <<argVars, fsVars, openHandles, nextId, opens, fnLocals, fn_result,
                   reports, tree, rdVars, fmtVars>>

\* lines 73-77: the next data file is handed to read_hdf5_data; what the file
\* holds at that moment is the file system's choice
Main_CallRead ==
    /\ pc = "main_loop"
    /\ file_pos <= Len(data_files)
    /\ \E content \in DataFileKinds :
          rd_calls' = Append(rd_calls, [path |-> data_files[file_pos],
                                        content |-> content])
    /\ rd_result' = None
    /\ pc' = "rd_open"
    /\ UNCHANGED <<argVars, fsVars, openHandles, nextId, opens, fnLocals, fn_result,
                   mainVars, rd_file, key_pos, data, fmtVars>>

\* lines 79-81: one line per pair of args.datasets.iter().zip(data)
RECURSIVE Zip(_, _)
Zip(ks, ds) ==
    IF ks = <<>> \/ ds = <<>> THEN <<>>
    ELSE <<[key |-> ks[1], dataset |-> ds[1]]>> \o Zip(Tail(ks), Tail(ds))

\* a plausible slip: the first failed read ends the loop
NextFilePosAborting(pos, r, n) == IF r.err # None THEN n + 1 ELSE pos + 1

\* line 73: the loop goes on to the next file whatever the read returned
NextFilePos(pos, r, n) == pos + 1

\* lines 78-84: the datasets go to stdout, an error to stderr
Main_Report ==
    /\ pc = "main_report"
    /\ reports' = Append(reports,
          [file |-> file_pos,
           stdout |-> IF rd_result[1].err = None
                      THEN Zip(datasets, rd_result[1].val[1]) ELSE <<>>,
           stderr |-> rd_result[1].err])
    /\ file_pos' = NextFilePos(file_pos, rd_result[1], Len(data_files))
    /\ pc' = "main_loop"
    /\ UNCHANGED <<argVars, fsVars, openHandles, nextId, opens, fnLocals, fn_result,
                   collection, tree, rdVars, fmtVars>>

\* line 85: no data file is left
Main_LoopDone ==
    /\ pc = "main_loop"
    /\ file_pos > Len(data_files)
    /\ pc' = "main_tree"
    /\ UNCHANGED <<argVars, fsVars, openHandles, nextId, opens, fnLocals, fn_result,
                   mainVars, rdVars, fmtVars>>

\* line 87: print_tree(&collection.as_tree())
Main_Tree ==
    /\ pc = "main_tree"
    /\ tree' = Some(as_tree(collection[1]))
    /\ pc' = "main_exit"
    /\ UNCHANGED <<argVars, fsVars, openHandles, nextId, opens, fnLocals, fn_result,
                   collection, file_pos, reports, rdVars, fmtVars>>

\* line 88: the end of the match arm drops `collection`
Main_Exit ==
    /\ pc = "main_exit"
    /\ openHandles' = Release(openHandles, ModuleHandles(collection[1].modules))
    /\ collection' = None
    /\ pc' = "done"
    /\ UNCHANGED <<argVars, fsVars, nextId, opens, fnLocals, fn_result,
                   file_pos, reports, tree, rdVars, fmtVars>>

\* ------------------------------------------------------------ formatting
\* line 55 applied to one number and one width
Format ==
    /\ pc = "fmt"
    /\ fmt_out = None
    /\ fmt_out' = Some(FormatNumber(fmt_n, fmt_width))
    /\ UNCHANGED <<argVars, fsVars, openHandles, nextId, opens, pc, fnLocals,
                   fn_result, mainVars, rdVars, fmt_n, fmt_width>>

\* ----------------------------------------------------------------- inputs
\* the path of the i-th listed data file
AdHocName(i) == <<"f">> \o Digits(i)

RECURSIVE SeqsUpTo(_, _)
SeqsUpTo(S, n) ==
    IF n = 0 THEN {<<>>}
    ELSE LET shorter == SeqsUpTo(S, n - 1)
         IN  shorter \cup {Append(s, x) : s \in shorter, x \in S}

RunNxs == <<"r", "u", "n", ".", "n", "x", "s">>
DirName == <<"d">>

\* metadata paths: "run.nxs", "d/run.nxs", "/d/run.nxs", ".nxs", "d/..",
\* ".", "/" and the empty path
NexusPaths ==
    {[root |-> FALSE, comps |-> <<RunNxs>>],
     [root |-> FALSE, comps |-> <<DirName, RunNxs>>],
     [root |-> TRUE, comps |-> <<DirName, RunNxs>>],
     [root |-> FALSE, comps |-> <<<<".", "n", "x", "s">>>>],
     [root |-> FALSE, comps |-> <<DirName, ParentDir>>],
     [root |-> FALSE, comps |-> <<CurDir>>],
     [root |-> TRUE, comps |-> <<>>],
     [root |-> FALSE, comps |-> <<>>]}

\* the metadata file: what fails when it is read, or its fp_per_module
MetaFailures == {"unopenable", "nogroup", "nodataset", "unreadable"}
MetaFiles(countSeqs) ==
    {[state |-> st, counts |-> <<>>] : st \in MetaFailures}
    \cup {[state |-> "ok", counts |-> cs] : cs \in countSeqs}

RECURSIVE Sum(_)
Sum(s) == IF s = <<>> THEN 0 ELSE s[1] + Sum(Tail(s))

\* at most one of the data files the metadata names is absent
MissingSets(counts) == {{}} \cup {{n} : n \in 1..Sum(counts)}

InitLocals ==
    /\ openHandles = {}
    /\ nextId = 1
    /\ opens = <<>>
    /\ file = None
    /\ meta = None
    /\ module_file_counts = <<>>
    /\ datafile_prefix = <<>>
    /\ directory = [root |-> FALSE, comps |-> <<>>]
    /\ modules = <<>>
    /\ file_number_offset = 0
    /\ module_pos = 1
    /\ cur_data_files = <<>>
    /\ file_idx = 1
    /\ fn_result = None
    /\ collection = None
    /\ file_pos = 1
    /\ reports = <<>>
    /\ tree = None
    /\ rd_file = None
    /\ key_pos = 1
    /\ data = <<>>
    /\ rd_result = None
    /\ rd_calls = <<>>

NoFmt ==
    /\ fmt_n = 0
    /\ fmt_width = 0
    /\ fmt_out = None

\* `debug datasets --nexus-path P [--data-file-padding W]`: no data file
Init ==
    /\ nexus_path \in NexusPaths
    /\ data_file_padding \in {0, 1, DefaultPadding}
    /\ data_files = <<>>
    /\ datasets = <<>>
    /\ fsMeta \in MetaFiles(SeqsUpTo(0..MaxCount, MaxModules))
    /\ fsMissing \in MissingSets(fsMeta.counts)
    /\ pc = "fn_open"
    /\ InitLocals
    /\ NoFmt

FromNexus ==
    \/ FN_OpenFile
    \/ FN_Group
    \/ FN_ReadCounts
    \/ FN_FileStem
    \/ FN_Parent
    \/ FN_NextModule
    \/ FN_OpenDataFile
    \/ FN_PushModule
    \/ FN_ReturnOk

Next ==
    \/ FromNexus
    \/ Main_Unwrap
    \/ Main_LoopDone
    \/ Main_Tree
    \/ Main_Exit

Spec == Init /\ [][Next]_vars

\* `debug datasets --nexus-path P --data-files F.. --datasets K..`
MainCounts == {<<>>, <<1>>, <<0, 2>>, <<2, 1>>}

InitMain ==
    /\ nexus_path \in {[root |-> FALSE, comps |-> <<RunNxs>>],
                       [root |-> TRUE, comps |-> <<DirName, RunNxs>>]}
    /\ data_file_padding = DefaultPadding
    /\ data_files \in {[i \in 1..n |-> AdHocName(i)] : n \in 0..MaxDataFiles}
    /\ datasets \in SeqsUpTo(Keys, MaxKeys)
    /\ fsMeta \in MetaFiles(MainCounts)
    /\ fsMissing \in MissingSets(fsMeta.counts)
    /\ pc = "fn_open"
    /\ InitLocals
    /\ NoFmt

NextMain ==
    \/ FromNexus
    \/ Main_Unwrap
    \/ Main_CallRead
    \/ RD_OpenFile
    \/ RD_ReadKey
    \/ RD_ReturnOk
    \/ Main_Report
    \/ Main_LoopDone
    \/ Main_Tree
    \/ Main_Exit

SpecMain == InitMain /\ [][NextMain]_vars

\* the number format on its own
LargeNumbers == {999, 1000, 99999, 100000, 2147483647}

InitFmt ==
    /\ nexus_path = [root |-> FALSE, comps |-> <<>>]
    /\ data_file_padding = 0
    /\ data_files = <<>>
    /\ datasets = <<>>
    /\ fsMeta = [state |-> "unopenable", counts |-> <<>>]
    /\ fsMissing = {}
    /\ pc = "fmt"
    /\ InitLocals
    /\ fmt_n \in (0..MaxNumber) \cup LargeNumbers
    /\ fmt_width \in 0..MaxWidth
    /\ fmt_out = None

NextFmt == Format

SpecFmt == InitFmt /\ [][NextFmt]_vars

\* ================================================================ claims
Returned == fn_result # None
ReturnedOk == fn_result # None /\ fn_result[1].err = None
ReturnedErr == fn_result # None /\ fn_result[1].err # None
\* the Collection that from_nexus returned
ReturnedModules == fn_result[1].val[1].modules

\* the metadata file can be read and its path names a file
ValidMetadata == fsMeta.state = "ok" /\ file_name(nexus_path) # None
AllDataFilesExist == fsMissing \cap (1..Sum(fsMeta.counts)) = {}

\* the sum of the first k counts
PrefixSum(cs, k) == Sum(SubSeq(cs, 1, k))

\* the path string from_nexus is to open for file number n
ExpectedPath(n) ==
    PathString(push(parent(nexus_path)[1],
                    DataFileName(file_stem(nexus_path)[1], n, data_file_padding)))

\* C1: for an openable metadata file with counts [c0..ck] whose data files
\* all exist, from_nexus returns a Collection of exactly k+1 modules, in the
\* order of the counts, module i holding exactly ci opened files (an empty
\* module for a count of 0).
Thm_C1 ==
    (Returned /\ ValidMetadata /\ AllDataFilesExist) =>
        /\ fn_result[1].err = None
        /\ Len(ReturnedModules) = Len(fsMeta.counts)
        /\ \A i \in 1..Len(fsMeta.counts) :
              /\ Len(ReturnedModules[i].data_files) = fsMeta.counts[i]
              /\ \A j \in 1..fsMeta.counts[i] :
                    ReturnedModules[i].data_files[j].kind = "file"
        /\ Cardinality(ModuleHandles(ReturnedModules)) = Sum(fsMeta.counts)

Wit_C1 ==
    /\ ReturnedOk
    /\ Len(fsMeta.counts) >= 3
    /\ \E i \in 1..Len(fsMeta.counts) : fsMeta.counts[i] = 0
    /\ \E i \in 1..Len(fsMeta.counts) : fsMeta.counts[i] >= 2

\* C2: the file numbers used to build the opened paths, in module order and
\* then file-index order, are 1, 2, ..., sum(ci) without gap or repeat; the
\* counter runs on across modules and a module of count 0 uses no number.
Thm_C2 ==
    /\ \A i \in 1..Len(opens) : opens[i].number = i
    /\ ReturnedOk =>
          /\ Len(opens) = Sum(fsMeta.counts)
          /\ \A i \in 1..Len(ReturnedModules) :
                \A j \in 1..Len(ReturnedModules[i].data_files) :
                    ReturnedModules[i].data_files[j].name
                        = ExpectedPath(PrefixSum(fsMeta.counts, i - 1) + j)

Wit_C2 ==
    /\ ReturnedOk
    /\ \E i \in 1..Len(fsMeta.counts) :
          /\ i + 1 <= Len(fsMeta.counts)
          /\ fsMeta.counts[i] = 0
          /\ fsMeta.counts[i + 1] > 0
          /\ PrefixSum(fsMeta.counts, i) >= 2

\* C4: if the opening of a data file fails, from_nexus returns an error and
\* no Collection, and no file is opened after the failing one.
Thm_C4 ==
    \A i \in 1..Len(opens) :
        ~ opens[i].ok =>
            /\ i = Len(opens)
            /\ fn_result = Some(Err(ErrHdf5))
            /\ fn_result[1].val = None
            /\ collection = None
            /\ pc \in {"fn_returned", "panicked"}

Wit_C4 ==
    /\ Len(opens) >= 3
    /\ ~ opens[Len(opens)].ok
    /\ opens[1].ok
    /\ module_pos >= 2
    /\ ReturnedErr

\* ------------------------------------------------------------------- C3
RECURSIVE Pow10(_)
Pow10(k) == IF k = 0 THEN 1 ELSE 10 * Pow10(k - 1)

\* the number of decimal digits of n
NumDigits(n) ==
    CHOOSE k \in 1..10 : (k = 1 \/ Pow10(k - 1) <= n) /\ (k = 10 \/ n < Pow10(k))

DigitValue(c) == CHOOSE v \in 0..9 : DigitChars[v + 1] = c

\* the value of the last k characters of a string of digits
RECURSIVE TailValue(_, _)
TailValue(str, k) ==
    IF k = 0 THEN 0
    ELSE DigitValue(str[Len(str)]) + 10 * TailValue(SubSeq(str, 1, Len(str) - 1), k - 1)

\* C3: the number field is the decimal digits of n left-padded with '0' to
\* exactly w characters when n has fewer than w digits, and the unmodified
\* digits of n when it has w or more (never truncated, w = 0 included).
Thm_C3 ==
    fmt_out # None =>
        LET out == fmt_out[1]
            nd == NumDigits(fmt_n)
        IN  /\ Len(out) = (IF nd < fmt_width THEN fmt_width ELSE nd)
            /\ \A i \in 1..Len(out) : out[i] \in Range(DigitChars)
            /\ \A i \in 1..(Len(out) - nd) : out[i] = "0"
            /\ TailValue(out, nd) = fmt_n
            /\ (fmt_n > 0 => out[Len(out) - nd + 1] # "0")

Wit_C3 ==
    /\ fmt_out # None
    /\ fmt_width >= 1
    /\ NumDigits(fmt_n) > fmt_width
    /\ Len(fmt_out[1]) = NumDigits(fmt_n)

\* ------------------------------------------------------------------- C5
\* the positions of the requested keys that the file does not hold
AbsentPositions(f, keys) == {i \in 1..Len(keys) : f.sets[keys[i]] = "absent"}
FirstOf(S) == CHOOSE i \in S : \A j \in S : i <= j

ReadReturned == rd_result # None /\ rd_calls # <<>>

\* C5 as stated: on a file that opens, whenever a requested key is absent the
\* call returns DatasetNotFound of the first absent key and no array.
Orig_C5 ==
    (ReadReturned /\ CurrentFile.openable
        /\ AbsentPositions(CurrentFile, datasets) # {}) =>
        /\ rd_result[1].err =
              Some(ErrDatasetNotFound(datasets[FirstOf(AbsentPositions(CurrentFile, datasets))]))
        /\ rd_result[1].val = None

\* C5, amended: on a file that opens, whenever a requested key is absent, the
\* call returns no array; it returns DatasetNotFound of the first absent key
\* when every key requested before it was read, and the read error (Hdf5) of
\* the first key that is present but cannot be read as a 1-d f64 array when
\* such a key comes before the first absent one.
Thm_C5 ==
    (ReadReturned /\ CurrentFile.openable
        /\ AbsentPositions(CurrentFile, datasets) # {}) =>
        LET first == FirstOf(AbsentPositions(CurrentFile, datasets))
        IN  /\ rd_result[1].val = None
            /\ IF \A j \in 1..(first - 1) : CurrentFile.sets[datasets[j]] = "ok"
               THEN rd_result[1].err = Some(ErrDatasetNotFound(datasets[first]))
               ELSE rd_result[1].err = Some(ErrHdf5)

Wit_C5 ==
    /\ ReadReturned
    /\ CurrentFile.openable
    /\ Len(datasets) >= 2
    /\ CurrentFile.sets[datasets[1]] = "ok"
    /\ CurrentFile.sets[datasets[2]] = "absent"
    /\ rd_result[1].err = Some(ErrDatasetNotFound(datasets[2]))

\* ------------------------------------------------------------------- C6
\* a bare file name: one normal component and no directory
BareFileName(p) == ~ p.root /\ Len(p.comps) = 1 /\ file_name(p) # None

\* C6 as stated: from_nexus fails with NoParentDirectory when the metadata
\* path is a bare file name of a valid metadata file, and opens no data file.
Orig_C6 ==
    (Returned /\ fsMeta.state = "ok" /\ BareFileName(nexus_path)) =>
        /\ fn_result[1].err = Some(ErrNoParentDirecory)
        /\ opens = <<>>

\* C6, amended: from_nexus never fails with NoParentDirectory.  The parent of
\* a bare file name is the empty path: the data files are then opened under
\* the bare names <prefix>_<N>.h5 (relative to the current directory) and the
\* resolution succeeds when they all exist.  A path that has no parent (the
\* empty path, the root) has no file stem either and fails before, with the
\* error of the open or with NoFileStem, without opening a data file.
Thm_C6 ==
    Returned =>
        /\ fn_result[1].err # Some(ErrNoParentDirecory)
        /\ (BareFileName(nexus_path) /\ fsMeta.state = "ok") =>
              /\ Len(opens) >= 1 \/ Sum(fsMeta.counts) = 0
              /\ \A i \in 1..Len(opens) :
                    opens[i].path = DataFileName(file_stem(nexus_path)[1], i,
                                                 data_file_padding)
              /\ AllDataFilesExist => fn_result[1].err = None
        /\ parent(nexus_path) = None =>
              /\ fn_result[1].err \in {Some(ErrHdf5), Some(ErrNoFileStem)}
              /\ opens = <<>>

Wit_C6 ==
    /\ ReturnedOk
    /\ BareFileName(nexus_path)
    /\ Len(opens) >= 2

\* ------------------------------------------------------------------- C7
\* C7: the root's children are one node per module in ascending module index,
\* the k-th labeled with the zero-based index k, and the leaves of the k-th
\* child are one per file of module k in ascending file index; no node is
\* added, dropped or reordered.
Thm_C7 ==
    tree # None =>
        LET t == tree[1]
        IN  /\ t.label = CollectionLabel
            /\ Len(t.children) = Len(ReturnedModules)
            /\ \A k \in 1..Len(ReturnedModules) :
                  /\ t.children[k].label
                        = <<"m", "o", "d", "u", "l", "e", "_", DigitChars[k]>>
                  /\ Len(t.children[k].children) = Len(ReturnedModules[k].data_files)
                  /\ \A j \in 1..Len(ReturnedModules[k].data_files) :
                        t.children[k].children[j]
                            = ExpectedPath(PrefixSum(fsMeta.counts, k - 1) + j)

Wit_C7 ==
    /\ tree # None
    /\ Len(tree[1].children) >= 3
    /\ \E k \in 1..Len(tree[1].children) : Len(tree[1].children[k].children) >= 2
    /\ \E k \in 1..Len(tree[1].children) : tree[1].children[k].children = <<>>

\* ------------------------------------------------------------------- C8
\* the leaves of the tree, in traversal order
TreeLeaves == Flatten([k \in 1..Len(tree[1].children) |-> tree[1].children[k].children])

\* C8 as stated: every file leaf is labeled with the name <prefix>_<N>.h5
\* only, not with the path under which from_nexus opened the file.
Orig_C8 ==
    tree # None =>
        \A n \in 1..Len(TreeLeaves) :
            TreeLeaves[n] = DataFileName(file_stem(nexus_path)[1], n, data_file_padding)

\* C8, amended: every file leaf is labeled with the path under which
\* from_nexus opened the file, the directory of the metadata path joined with
\* <prefix>_<N>.h5; the label is the name alone only when that directory is
\* the empty path (the metadata path is a bare file name).
Thm_C8 ==
    tree # None =>
        \A n \in 1..Len(TreeLeaves) :
            /\ TreeLeaves[n] = opens[n].path
            /\ TreeLeaves[n] = ExpectedPath(n)
            /\ (TreeLeaves[n] = DataFileName(file_stem(nexus_path)[1], n, data_file_padding))
                  <=> (parent(nexus_path)[1] = [root |-> FALSE, comps |-> <<>>])

Wit_C8 ==
    /\ tree # None
    /\ Len(TreeLeaves) >= 1
    /\ parent(nexus_path)[1].comps # <<>>
    /\ LastSlash(TreeLeaves[1]) > 0

\* ------------------------------------------------------------------- C9
\* C9: after from_nexus has returned an error, no handle it acquired is open;
\* after it has returned a Collection, the open handles are exactly the data
\* files of that Collection, and they are closed when the Collection is
\* dropped; read_hdf5_data leaves no handle open when it returns.
Thm_C9 ==
    /\ ReturnedErr => openHandles = {}
    /\ (ReturnedOk /\ pc = "fn_returned") =>
          /\ openHandles = ModuleHandles(ReturnedModules)
          /\ \A h \in openHandles : h.kind = "file" /\ h.name # PathString(nexus_path)
    /\ pc \in {"main_loop", "main_report", "main_tree", "main_exit"} =>
          openHandles = ModuleHandles(collection[1].modules)
    /\ pc = "main_report" => rd_file = None
    /\ pc = "done" => openHandles = {}

Wit_C9 ==
    /\ ReturnedErr
    /\ Len(opens) >= 3
    /\ opens[1].ok
    /\ module_pos >= 2
    /\ openHandles = {}

\* ------------------------------------------------------------------ C10
\* what read_hdf5_data returns for a file and a list of keys, on its own
UnreadPositions(f, keys) == {i \in 1..Len(keys) : f.sets[keys[i]] # "ok"}
OutcomeAlone(f, keys) ==
    IF ~ f.openable THEN Err(ErrHdf5)
    ELSE IF UnreadPositions(f, keys) = {}
    THEN Ok([i \in 1..Len(keys) |-> Values(keys[i])])
    ELSE LET i == FirstOf(UnreadPositions(f, keys))
         IN  IF f.sets[keys[i]] = "absent"
             THEN Err(ErrDatasetNotFound(keys[i]))
             ELSE Err(ErrHdf5)

\* C10: once the resolution has succeeded, read_hdf5_data is called exactly
\* once for each listed file, in list order; each call returns what it would
\* return alone; a failed file is reported and the files after it are still
\* read; the tree of the collection is produced afterwards.
Thm_C10 ==
    /\ Len(rd_calls) <= Len(data_files)
    /\ \A i \in 1..Len(rd_calls) : rd_calls[i].path = data_files[i]
    /\ \A i \in 1..Len(reports) :
          LET r == OutcomeAlone(rd_calls[i].content, datasets)
          IN  /\ reports[i].file = i
              /\ reports[i].stderr = r.err
              /\ reports[i].stdout =
                    (IF r.err = None
                     THEN [n \in 1..Len(datasets) |->
                              [key |-> datasets[n], dataset |-> r.val[1][n]]]
                     ELSE <<>>)
    /\ ReadReturned => rd_result[1] = OutcomeAlone(CurrentFile, datasets)
    /\ pc \in {"main_tree", "main_exit", "done"} =>
          /\ ReturnedOk
          /\ Len(rd_calls) = Len(data_files)
          /\ Len(reports) = Len(data_files)
    /\ pc \in {"main_exit", "done"} =>
          /\ tree # None
          /\ Len(tree[1].children) = Len(ReturnedModules)

Wit_C10 ==
    /\ pc = "done"
    /\ Len(reports) >= 2
    /\ reports[1].stderr # None
    /\ reports[2].stderr = None
    /\ reports[2].stdout # <<>>
    /\ tree # None

====
